---------------------------- MODULE Spec2Model ----------------------------
(***************************************************************************)
(* A model of the gas_giant_core profile generators and analyzers          *)
(* (src/src/planet_generators.py, src/src/planet_analyzers.py).            *)
(*                                                                         *)
(* Numbers.  The program computes in numpy float64.  The model computes    *)
(* the same expressions in exact rational arithmetic, extended with the    *)
(* IEEE special values the program can produce (a division by zero gives   *)
(* inf or nan, and both propagate), so that rounding is the only thing     *)
(* left out.  A number is a record [t, s, n, d]: t is "fin", "inf" or      *)
(* "nan"; for "fin" the value is s * n / d with s the sign (-1, 0, 1) and  *)
(* n, d natural numbers in lowest terms, each a little-endian sequence of  *)
(* limbs in base Base (the values of the reference profile do not fit a    *)
(* 32-bit machine integer).                                                *)
(*                                                                         *)
(* Arrays are functions on 0 .. N-1, indexed as in the source.             *)
(*                                                                         *)
(* Units.  pi is not a rational, so every mass of the model is the         *)
(* program's mass divided by 4*pi/3: mass and mass_variable leave out the  *)
(* factor 4*np.pi/3 they multiply by, and a core mass Mc of the model      *)
(* stands for the program's Mc*5.972e24 divided by 4*pi/3.  Radii and      *)
(* densities are the program's own.                                        *)
(***************************************************************************)
EXTENDS Integers, Sequences, FiniteSets, TLC

(***************************************************************************)
(* Natural numbers of any size: little-endian limb sequences, no leading   *)
(* zero limb; <<>> is zero.                                                *)
(***************************************************************************)
Base == 10000

RECURSIVE MagOf(_)
MagOf(i) == IF i = 0 THEN <<>> ELSE <<i % Base>> \o MagOf(i \div Base)

RECURSIVE MagTrim(_)
MagTrim(m) ==
  IF m = <<>> THEN m
  ELSE IF m[Len(m)] = 0 THEN MagTrim(SubSeq(m, 1, Len(m) - 1)) ELSE m

RECURSIVE MagAddC(_, _, _)
MagAddC(a, b, c) ==
  IF a = <<>> /\ b = <<>> THEN (IF c = 0 THEN <<>> ELSE <<c>>)
  ELSE LET x == (IF a = <<>> THEN 0 ELSE a[1]) + (IF b = <<>> THEN 0 ELSE b[1]) + c
       IN  <<x % Base>> \o MagAddC(IF a = <<>> THEN a ELSE Tail(a),
                                   IF b = <<>> THEN b ELSE Tail(b), x \div Base)

MagAdd(a, b) == MagAddC(a, b, 0)

\* a - b - c for a >= b + c, before trimming
RECURSIVE MagSubB(_, _, _)
MagSubB(a, b, c) ==
  IF a = <<>> THEN <<>>
  ELSE LET x == a[1] - (IF b = <<>> THEN 0 ELSE b[1]) - c
       IN  <<x % Base>> \o MagSubB(Tail(a), IF b = <<>> THEN b ELSE Tail(b),
                                   IF x < 0 THEN 1 ELSE 0)

MagSub(a, b) == MagTrim(MagSubB(a, b, 0))

RECURSIVE MagCmpAt(_, _, _)
MagCmpAt(a, b, i) ==
  IF i = 0 THEN 0
  ELSE IF a[i] < b[i] THEN -1
  ELSE IF a[i] > b[i] THEN 1
  ELSE MagCmpAt(a, b, i - 1)

\* -1, 0 or 1 as a < b, a = b, a > b
MagCmp(a, b) ==
  IF Len(a) < Len(b) THEN -1
  ELSE IF Len(a) > Len(b) THEN 1
  ELSE MagCmpAt(a, b, Len(a))

RECURSIVE MagMulS(_, _, _)
MagMulS(a, f, c) ==
  IF a = <<>> THEN (IF c = 0 THEN <<>> ELSE <<c>>)
  ELSE LET x == a[1] * f + c
       IN  <<x % Base>> \o MagMulS(Tail(a), f, x \div Base)

RECURSIVE MagMul(_, _)
MagMul(a, b) ==
  IF a = <<>> \/ b = <<>> THEN <<>>
  ELSE LET hi == MagMul(a, Tail(b))
           lo == IF b[1] = 0 THEN <<>> ELSE MagMulS(a, b[1], 0)
       IN  MagAdd(lo, IF hi = <<>> THEN <<>> ELSE <<0>> \o hi)

\* quotient (untrimmed) and remainder of a by a small p
RECURSIVE MagDivRem(_, _)
MagDivRem(a, p) ==
  IF a = <<>> THEN [q |-> <<>>, r |-> 0]
  ELSE LET h == MagDivRem(Tail(a), p)
           cur == h.r * Base + a[1]
       IN  [q |-> <<cur \div p>> \o h.q, r |-> cur % p]

\* The primes that can divide a denominator: those of the decimal inputs, of
\* the sample counts and breakpoints the model draws, and of Jupiter.s0
\* (6.9911e7 = 2^3 * 5^3 * 69911).
Primes == <<2, 3, 5, 7, 11, 13, 69911>>

RECURSIVE Reduce(_, _, _)
Reduce(n, d, ps) ==
  IF ps = <<>> THEN <<n, d>>
  ELSE LET qn == MagDivRem(n, Head(ps))
           qd == MagDivRem(d, Head(ps))
       IN  IF qn.r = 0 /\ qd.r = 0
           THEN Reduce(MagTrim(qn.q), MagTrim(qd.q), ps)
           ELSE Reduce(n, d, Tail(ps))

(***************************************************************************)
(* float64 values in exact arithmetic, with inf and nan.                   *)
(***************************************************************************)
One == <<1>>

nan == [t |-> "nan", s |-> 0, n |-> <<>>, d |-> One]
inf(s) == [t |-> "inf", s |-> s, n |-> <<>>, d |-> One]
zero == [t |-> "fin", s |-> 0, n |-> <<>>, d |-> One]

\* the finite value s * n / d, in lowest terms
fin(s, n, d) ==
  IF s = 0 \/ n = <<>> THEN zero
  ELSE LET r == Reduce(n, d, Primes)
       IN  [t |-> "fin", s |-> s, n |-> r[1], d |-> r[2]]

\* the number p / q for machine integers p and q > 0
num(p, q) ==
  fin(IF p < 0 THEN -1 ELSE IF p = 0 THEN 0 ELSE 1,
      MagOf(IF p < 0 THEN -p ELSE p), MagOf(q))

isfinite(x) == x.t = "fin"
isnan(x) == x.t = "nan"

fneg(x) == [x EXCEPT !.s = -x.s]

\* the sum of two finite values
AddFin(x, y) ==
  IF x.s = 0 THEN y
  ELSE IF y.s = 0 THEN x
  ELSE LET a == IF x.d = y.d THEN x.n ELSE MagMul(x.n, y.d)
           b == IF x.d = y.d THEN y.n ELSE MagMul(y.n, x.d)
           d == IF x.d = y.d THEN x.d ELSE MagMul(x.d, y.d)
           c == MagCmp(a, b)
       IN  IF x.s = y.s THEN fin(x.s, MagAdd(a, b), d)
           ELSE IF c = 0 THEN zero
           ELSE IF c > 0 THEN fin(x.s, MagSub(a, b), d)
           ELSE fin(y.s, MagSub(b, a), d)

fadd(x, y) ==
  IF isnan(x) \/ isnan(y) THEN nan
  ELSE IF x.t = "inf" THEN (IF y.t = "inf" /\ y.s # x.s THEN nan ELSE x)
  ELSE IF y.t = "inf" THEN y
  ELSE AddFin(x, y)

fsub(x, y) == fadd(x, fneg(y))

fmul(x, y) ==
  IF isnan(x) \/ isnan(y) THEN nan
  ELSE IF x.t = "inf" \/ y.t = "inf"
       THEN (IF x.s = 0 \/ y.s = 0 THEN nan ELSE inf(x.s * y.s))
  ELSE IF x.s = 0 \/ y.s = 0 THEN zero
  ELSE fin(x.s * y.s, MagMul(x.n, y.n), MagMul(x.d, y.d))

\* numpy's true division: a zero divisor gives inf, or nan for 0/0, and a
\* warning, never an exception
fdiv(x, y) ==
  IF isnan(x) \/ isnan(y) THEN nan
  ELSE IF x.t = "inf" THEN (IF y.t = "inf" THEN nan
                            ELSE inf(IF y.s < 0 THEN -x.s ELSE x.s))
  ELSE IF y.t = "inf" THEN zero
  ELSE IF y.s = 0 THEN (IF x.s = 0 THEN nan ELSE inf(x.s))
  ELSE IF x.s = 0 THEN zero
  ELSE fin(x.s * y.s, MagMul(x.n, y.d), MagMul(x.d, y.n))

\* the sign of x - y for x, y not nan
fcmp(x, y) == LET r == fsub(x, y) IN IF isnan(r) THEN 0 ELSE r.s

\* comparisons: any comparison with nan is false
flt(x, y) == ~isnan(x) /\ ~isnan(y) /\ fcmp(x, y) < 0
fgt(x, y) == flt(y, x)
feq(x, y) == ~isnan(x) /\ ~isnan(y) /\ fcmp(x, y) = 0
fle(x, y) == flt(x, y) \/ feq(x, y)

fabs(x) == IF x.s < 0 THEN fneg(x) ELSE x

fsq(x) == fmul(x, x)
fcube(x) == fmul(x, fmul(x, x))

\* np.sqrt: 0, inf and nan are their own roots (a negative argument gives
\* nan); any other root is kept as the root of its argument, t = "sqrt"
fsqrt(x) ==
  IF isnan(x) \/ x.s < 0 THEN nan
  ELSE IF x.t = "inf" \/ x.s = 0 THEN x
  ELSE [x EXCEPT !.t = "sqrt"]

(***************************************************************************)
(* numpy arrays: functions on 0 .. N-1, indexed as in the source.          *)
(***************************************************************************)
size(v) == Cardinality(DOMAIN v)

\* an array from a sequence of values
array(q) == [k \in 0 .. Len(q) - 1 |-> q[k + 1]]

\* Python's sum over an array: from 0, left to right
RECURSIVE SumTo(_, _)
SumTo(v, n) == IF n = 0 THEN zero ELSE fadd(SumTo(v, n - 1), v[n - 1])

sum(v) == SumTo(v, size(v))

\* np.argmin: the first index of the least value
argmin(v) ==
  CHOOSE i \in DOMAIN v :
    /\ \A j \in DOMAIN v : fle(v[i], v[j])
    /\ \A j \in DOMAIN v : j < i => flt(v[i], v[j])

(***************************************************************************)
(* planet_analyzers.mass                                                   *)
(***************************************************************************)
\* a plausible slip: the densities themselves instead of their increments
mass_no_diff(svec, dvec) ==
  sum([k \in DOMAIN svec |-> fmul(dvec[k], fcube(svec[k]))])

mass(svec, dvec) ==
  LET dro == [k \in DOMAIN dvec |->
                IF k = 0 THEN dvec[0] ELSE fsub(dvec[k], dvec[k - 1])]
  IN  sum([k \in DOMAIN svec |-> fmul(dro[k], fcube(svec[k]))])

(***************************************************************************)
(* planet_analyzers.mass_variable                                          *)
(***************************************************************************)
\* mvec before the loop: zeros, the last layer a sphere
mvec_init(svec, dvec) ==
  LET N == size(svec)
  IN  [k \in DOMAIN svec |->
         IF k = N - 1 THEN fmul(dvec[N - 1], fcube(svec[N - 1])) ELSE zero]

\* a plausible slip: the shell's volume with its two radii swapped
mvec_step_swapped(mvec, k, svec, dvec) ==
  [mvec EXCEPT ![k - 1] =
     fadd(mvec[k], fmul(dvec[k - 1], fsub(fcube(svec[k]), fcube(svec[k - 1]))))]

\* one iteration of the loop, at k
mvec_step(mvec, k, svec, dvec) ==
  [mvec EXCEPT ![k - 1] =
     fadd(mvec[k], fmul(dvec[k - 1], fsub(fcube(svec[k - 1]), fcube(svec[k]))))]

RECURSIVE mvec_loop(_, _, _, _)
mvec_loop(mvec, k, svec, dvec) ==
  IF k = 0 THEN mvec
  ELSE mvec_loop(mvec_step(mvec, k, svec, dvec), k - 1, svec, dvec)

mass_variable(svec, dvec) ==
  mvec_loop(mvec_init(svec, dvec), size(svec) - 1, svec, dvec)

(***************************************************************************)
(* planet_analyzers.distance_of_J.  The result is what the call returned   *)
(* or the exception it raised.                                             *)
(***************************************************************************)
none == [kind |-> "none"]
value(v) == [kind |-> "value", val |-> v]
raise(e) == [kind |-> "raise", err |-> e]

\* numpy broadcasting of two 1-d arrays: equal sizes, or one of size 1
broadcastable(a, b) == size(a) = size(b) \/ size(a) = 1 \/ size(b) = 1

multiply(a, b) ==
  LET n == IF size(a) = 1 THEN size(b) ELSE size(a)
  IN  [k \in 0 .. n - 1 |-> fmul(a[IF size(a) = 1 THEN 0 ELSE k],
                                 b[IF size(b) = 1 THEN 0 ELSE k])]

\* the distance formula, on arrays of one size
distance(model_1, model_2, sigmas) ==
  fsqrt(sum([k \in DOMAIN model_1 |->
               fsq(fdiv(fsub(model_1[k], model_2[k]), sigmas[k]))]))

\* a plausible slip: the uncertainties are never scaled by model_1
distance_of_J_unscaled(model_1, model_2, sigmas) ==
  IF size(model_1) # size(model_2) THEN raise("AssertionError")
  ELSE IF size(model_1) # size(sigmas) THEN raise("AssertionError")
  ELSE value(distance(model_1, model_2, sigmas))

distance_of_J(model_1, model_2, sigmas) ==
  IF ~broadcastable(sigmas, model_1) THEN raise("ValueError")
  ELSE LET scaled == multiply(sigmas, model_1)
       IN  IF size(model_1) # size(model_2) THEN raise("AssertionError")
           ELSE IF size(model_1) # size(scaled) THEN raise("AssertionError")
           ELSE value(distance(model_1, model_2, scaled))

\* the default of the sigmas parameter, (1e-4, 3e-4)
default_sigmas == array(<<num(1, 10000), num(3, 10000)>>)

(***************************************************************************)
(* planet_generators.piecewise_quadratic_planet                            *)
(***************************************************************************)
\* np.linspace(start, stop, n)
linspace(start, stop, n) ==
  IF n = 1 THEN [k \in 0 .. 0 |-> start]
  ELSE LET step == fdiv(fsub(stop, start), num(n - 1, 1))
       IN  [k \in 0 .. n - 1 |-> fadd(start, fmul(num(k, 1), step))]

\* a plausible slip: the sign of the curvature term of b2
coefficients_b2_sign(x) ==
  LET a1 == x[0]  y10 == x[1]  y11 == x[2]
      a2 == x[3]  y21 == x[4]  y22 == x[5]
      a3 == x[6]  y32 == x[7]  y33 == x[8]
      z1 == x[9]  z2 == x[10]
      d10 == y10
      d11 == fadd(d10, y11)
      d21 == fadd(d11, y21)
      d22 == fadd(d21, y22)
      d32 == fadd(d22, y32)
      d33 == fadd(d32, y33)
      b1 == fsub(fdiv(fsub(d11, d10), fsub(z1, num(1, 1))), fmul(a1, fadd(z1, num(1, 1))))
      c1 == fsub(fsub(d10, a1), b1)
      b2 == fadd(fdiv(fsub(d22, d21), fsub(z2, z1)), fmul(a2, fadd(z2, z1)))
      c2 == fsub(fsub(d21, fmul(a2, fsq(z1))), fmul(b2, z1))
      b3 == fsub(fdiv(fsub(d32, d33), z2), fmul(a3, z2))
      c3 == d33
  IN  [a1 |-> a1, b1 |-> b1, c1 |-> c1, a2 |-> a2, b2 |-> b2, c2 |-> c2,
       a3 |-> a3, b3 |-> b3, c3 |-> c3, z1 |-> z1, z2 |-> z2]

\* the parameters interpreted and the three segments' coefficients solved
coefficients(x) ==
  LET a1 == x[0]  y10 == x[1]  y11 == x[2]
      a2 == x[3]  y21 == x[4]  y22 == x[5]
      a3 == x[6]  y32 == x[7]  y33 == x[8]
      z1 == x[9]  z2 == x[10]
      d10 == y10
      d11 == fadd(d10, y11)
      d21 == fadd(d11, y21)
      d22 == fadd(d21, y22)
      d32 == fadd(d22, y32)
      d33 == fadd(d32, y33)
      b1 == fsub(fdiv(fsub(d11, d10), fsub(z1, num(1, 1))), fmul(a1, fadd(z1, num(1, 1))))
      c1 == fsub(fsub(d10, a1), b1)
      b2 == fsub(fdiv(fsub(d22, d21), fsub(z2, z1)), fmul(a2, fadd(z2, z1)))
      c2 == fsub(fsub(d21, fmul(a2, fsq(z1))), fmul(b2, z1))
      b3 == fsub(fdiv(fsub(d32, d33), z2), fmul(a3, z2))
      c3 == d33
  IN  [a1 |-> a1, b1 |-> b1, c1 |-> c1, a2 |-> a2, b2 |-> b2, c2 |-> c2,
       a3 |-> a3, b3 |-> b3, c3 |-> c3, z1 |-> z1, z2 |-> z2]

\* a*z**2 + b*z + c
quadratic(a, b, c, z) == fadd(fadd(fmul(a, fsq(z)), fmul(b, z)), c)

\* a plausible slip: a sample on a breakpoint belongs to the segment above it
density_at_inclusive(co, z) ==
  IF fle(co.z1, z) THEN quadratic(co.a1, co.b1, co.c1, z)
  ELSE IF fle(co.z2, z) THEN quadratic(co.a2, co.b2, co.c2, z)
  ELSE quadratic(co.a3, co.b3, co.c3, z)

\* the body of the loop that writes the profile: the density of the sample at z
density_at(co, z) ==
  IF fgt(z, co.z1) THEN quadratic(co.a1, co.b1, co.c1, z)
  ELSE IF fgt(z, co.z2) THEN quadratic(co.a2, co.b2, co.c2, z)
  ELSE quadratic(co.a3, co.b3, co.c3, z)

\* the call: the input control, then the profile (zvec, dvec); co is the
\* local coefficients
piecewise_quadratic_planet(N, x) ==
  IF ~(N > 0) THEN raise("AssertionError")
  ELSE IF size(x) # 11 THEN raise("AssertionError")
  ELSE LET co == coefficients(x)
           zvec == linspace(num(1, 1), num(1, N), N)
           dvec == [k \in 0 .. N - 1 |-> density_at(co, zvec[k])]
       IN  [kind |-> "value", val |-> [svec |-> zvec, dvec |-> dvec], co |-> co]

(***************************************************************************)
(* planet_generators.reference_jupiter, type_1_jupiter, type_2_jupiter     *)
(***************************************************************************)
\* observables.Jupiter.s0 = 6.9911e7
Jupiter_s0 == num(69911000, 1)

reference_x ==
  array(<<num(-10065958, 10000), zero, num(10147479, 10000),
          num(-13393080, 10000), num(30463783, 1000000), num(38662506, 10000),
          zero, zero, zero, num(8, 10), zero>>)

reference_jupiter(N) ==
  LET r == piecewise_quadratic_planet(N, reference_x)
  IN  IF r.kind = "raise" THEN r
      ELSE [r EXCEPT !.val.svec = [k \in DOMAIN @ |-> fmul(@[k], Jupiter_s0)]]

\* where the core goes: the first sample whose enclosed mass is nearest to Mc
core_index(Mc, svec, dvec) ==
  LET mvec == mass_variable(svec, dvec)
  IN  argmin([k \in DOMAIN mvec |-> fabs(fsub(Mc, mvec[k]))])

\* a plausible slip: the core starts one sample below the located one
type_1_jupiter_below(N, Mc) ==
  LET r == reference_jupiter(N)
  IN  IF r.kind = "raise" THEN r
      ELSE LET svec == r.val.svec
               dvec == r.val.dvec
               indc == core_index(Mc, svec, dvec)
               Rc == svec[indc]
               rhoc == fdiv(Mc, fcube(Rc))
           IN  [kind |-> "value", indc |-> indc,
                val |-> [svec |-> svec,
                         dvec |-> IF indc < N - 1
                                  THEN [k \in DOMAIN dvec |->
                                          IF k >= indc + 1 THEN rhoc ELSE dvec[k]]
                                  ELSE dvec]]

\* Mc is the source's Mc*5.972e24 (kg) over 4*pi/3, so that rhoc is
\* Mc/Rc**3; indc is the local index
type_1_jupiter(N, Mc) ==
  LET r == reference_jupiter(N)
  IN  IF r.kind = "raise" THEN r
      ELSE LET svec == r.val.svec
               dvec == r.val.dvec
               indc == core_index(Mc, svec, dvec)
               Rc == svec[indc]
               rhoc == fdiv(Mc, fcube(Rc))
           IN  [kind |-> "value", indc |-> indc,
                val |-> [svec |-> svec,
                         dvec |-> IF indc < N - 1
                                  THEN [k \in DOMAIN dvec |->
                                          IF k >= indc THEN rhoc ELSE dvec[k]]
                                  ELSE dvec]]

\* a plausible slip: the guard on the located index is dropped
type_2_jupiter_unguarded(N, Mc) ==
  LET r == reference_jupiter(N)
  IN  IF r.kind = "raise" THEN r
      ELSE LET svec == r.val.svec
               dvec == r.val.dvec
               zvec == [k \in DOMAIN svec |-> fdiv(svec[k], svec[0])]
               indc == core_index(Mc, svec, dvec)
               Zc == zvec[indc]
               rhoc == dvec[N - 1]
               rhoe == fsub(fdiv(fdiv(fmul(num(4, 3), Mc), fcube(svec[0])), fcube(Zc)),
                            fdiv(rhoc, num(3, 1)))
               slope == fdiv(fsub(rhoe, rhoc), Zc)
           IN  [kind |-> "value", indc |-> indc,
                val |-> [svec |-> svec,
                         dvec |-> [k \in DOMAIN dvec |->
                                     IF k >= indc THEN fadd(rhoc, fmul(slope, zvec[k]))
                                     ELSE dvec[k]]]]

\* Mc as in type_1_jupiter, so that (Mc/svec[0]**3)/(np.pi*Zc**3) is
\* (4/3)*Mc/svec[0]**3/Zc**3
type_2_jupiter(N, Mc) ==
  LET r == reference_jupiter(N)
  IN  IF r.kind = "raise" THEN r
      ELSE LET svec == r.val.svec
               dvec == r.val.dvec
               zvec == [k \in DOMAIN svec |-> fdiv(svec[k], svec[0])]
               indc == core_index(Mc, svec, dvec)
               Zc == zvec[indc]
               rhoc == dvec[N - 1]
               rhoe == fsub(fdiv(fdiv(fmul(num(4, 3), Mc), fcube(svec[0])), fcube(Zc)),
                            fdiv(rhoc, num(3, 1)))
               slope == fdiv(fsub(rhoe, rhoc), Zc)
           IN  [kind |-> "value", indc |-> indc,
                val |-> [svec |-> svec,
                         dvec |-> IF indc < N - 1
                                  THEN [k \in DOMAIN dvec |->
                                          IF k >= indc THEN fadd(rhoc, fmul(slope, zvec[k]))
                                          ELSE dvec[k]]
                                  ELSE dvec]]

(***************************************************************************)
(* State: the function last called (op), its arguments (arg), the locals   *)
(* of mass_variable's loop (loc), what it returned or raised (ret), and    *)
(* pc:                                                                     *)
(* "idle" before the call, "loop" inside mass_variable's loop, "done"      *)
(* after it.  The functions are pure and share no state, so a behaviour    *)
(* is one call.                                                            *)
(***************************************************************************)
VARIABLES pc, op, arg, loc, ret

vars == <<pc, op, arg, loc, ret>>

Init ==
  /\ pc = "idle"
  /\ op = "none"
  /\ arg = <<>>
  /\ loc = <<>>
  /\ ret = none

(***************************************************************************)
(* The analyzers on profiles (svec, dvec) of equal length                  *)
(***************************************************************************)
MaxLen == 3
RadVals == {1, 2, 3}
DensVals == {-1, 0, 2}

Ints(S) == {num(i, 1) : i \in S}

Arrays(n, S) == [0 .. n - 1 -> S]

CallMass ==
  /\ pc = "idle"
  /\ \E n \in 1 .. MaxLen :
       \E svec \in Arrays(n, Ints(RadVals)), dvec \in Arrays(n, Ints(DensVals)) :
         /\ op' = "mass"
         /\ arg' = [svec |-> svec, dvec |-> dvec]
         /\ ret' = value(mass(svec, dvec))
  /\ pc' = "done"
  /\ UNCHANGED loc

MassVariableEnter ==
  /\ pc = "idle"
  /\ \E n \in 1 .. MaxLen :
       \E svec \in Arrays(n, Ints(RadVals)), dvec \in Arrays(n, Ints(DensVals)) :
         /\ op' = "mass_variable"
         /\ arg' = [svec |-> svec, dvec |-> dvec]
         /\ loc' = [mvec |-> mvec_init(svec, dvec), k |-> n - 1]
  /\ pc' = "loop"
  /\ ret' = none

MassVariableLoop ==
  /\ pc = "loop"
  /\ loc.k > 0
  /\ loc' = [mvec |-> mvec_step(loc.mvec, loc.k, arg.svec, arg.dvec), k |-> loc.k - 1]
  /\ UNCHANGED <<pc, op, arg, ret>>

MassVariableReturn ==
  /\ pc = "loop"
  /\ loc.k = 0
  /\ ret' = value(loc.mvec)
  /\ pc' = "done"
  /\ UNCHANGED <<op, arg, loc>>

NextMass ==
  \/ CallMass
  \/ MassVariableEnter
  \/ MassVariableLoop
  \/ MassVariableReturn

SpecMass == Init /\ [][NextMass]_vars

(***************************************************************************)
(* Calls of the generators and of distance_of_J.  Beside the value (val),  *)
(* ret holds the locals of the call that the properties inspect: the       *)
(* coefficients (co) and the located index (indc).                         *)
(***************************************************************************)
\* distance_of_J on sets of J coefficients and uncertainties
MaxJ == 2
JVals == {0, 1, -2}
SigVals == {num(1, 10000), num(3, 10000)}

JSets(S) == UNION {Arrays(n, S) : n \in 0 .. MaxJ}

CallDistance ==
  \E model_1 \in JSets(Ints(JVals)), model_2 \in JSets(Ints(JVals)),
     sigmas \in JSets(SigVals) :
    /\ pc = "idle"
    /\ op' = "distance_of_J"
    /\ arg' = [model_1 |-> model_1, model_2 |-> model_2, sigmas |-> sigmas]
    /\ ret' = distance_of_J(model_1, model_2, sigmas)
    /\ pc' = "done"
    /\ UNCHANGED loc

\* sigmas left to its default
CallDistanceDefault ==
  \E model_1 \in JSets(Ints(JVals)), model_2 \in JSets(Ints(JVals)) :
    /\ pc = "idle"
    /\ op' = "distance_of_J"
    /\ arg' = [model_1 |-> model_1, model_2 |-> model_2, sigmas |-> default_sigmas]
    /\ ret' = distance_of_J(model_1, model_2, default_sigmas)
    /\ pc' = "done"
    /\ UNCHANGED loc

NextDistance ==
  \/ CallDistance
  \/ CallDistanceDefault

SpecDistance == Init /\ [][NextDistance]_vars

\* piecewise_quadratic_planet on descriptors with breakpoints on a grid of
\* [0, 1], in either order, and on a vector of the wrong length
MaxN == 5
ZDen == 4
ZVals == {num(i, ZDen) : i \in 0 .. ZDen}

Descriptors ==
  {array(<<a1, y10, num(3, 1), num(1, 1), num(1, 2), y22, num(-2, 1), num(1, 1), y33, z1, z2>>) :
     a1 \in Ints({-1, 2}), y10 \in Ints({0, 1}), y22 \in Ints({0, 2}),
     y33 \in Ints({0, 1}), z1 \in ZVals, z2 \in ZVals}

\* a call runs to its return in one step; r is what the function gives on
\* its arguments, a value with the locals the properties read or a raise
PiecewiseReturns(N, x, r) ==
  /\ pc = "idle"
  /\ op' = "piecewise_quadratic_planet"
  /\ arg' = [N |-> N, x |-> x]
  /\ ret' = r
  /\ pc' = "done"
  /\ UNCHANGED loc

CallPiecewise ==
  \E N \in 0 .. MaxN, x \in Descriptors \cup {array(<<zero, zero>>)} :
    PiecewiseReturns(N, x, piecewise_quadratic_planet(N, x))

ReferenceReturns(N, r) ==
  /\ pc = "idle"
  /\ op' = "reference_jupiter"
  /\ arg' = [N |-> N, x |-> reference_x]
  /\ ret' = r
  /\ pc' = "done"
  /\ UNCHANGED loc

CallReference ==
  \E N \in 0 .. MaxN :
    ReferenceReturns(N, reference_jupiter(N))

NextPiecewise ==
  \/ CallPiecewise
  \/ CallReference

SpecPiecewise == Init /\ [][NextPiecewise]_vars

\* the core substitutions, on core masses that are multiples of McUnit
\* (2e25 kg over 4*pi/3, about 14 Earth masses)
MaxQ == 16
McUnit == fmul(num(20, 1), fcube(num(100000000, 1)))
McVals == {fmul(num(q, 1), McUnit) : q \in 0 .. MaxQ}

Type1Returns(N, Mc, r) ==
  /\ pc = "idle"
  /\ op' = "type_1_jupiter"
  /\ arg' = [N |-> N, Mc |-> Mc]
  /\ ret' = r
  /\ pc' = "done"
  /\ UNCHANGED loc

CallType1 ==
  \E N \in 0 .. MaxN, Mc \in McVals :
    Type1Returns(N, Mc, type_1_jupiter(N, Mc))

Type2Returns(N, Mc, r) ==
  /\ pc = "idle"
  /\ op' = "type_2_jupiter"
  /\ arg' = [N |-> N, Mc |-> Mc]
  /\ ret' = r
  /\ pc' = "done"
  /\ UNCHANGED loc

CallType2 ==
  \E N \in 0 .. MaxN, Mc \in McVals :
    Type2Returns(N, Mc, type_2_jupiter(N, Mc))

NextCore ==
  \/ CallReference
  \/ CallType1
  \/ CallType2

SpecCore == Init /\ [][NextCore]_vars

(***************************************************************************)
(* Properties                                                              *)
(***************************************************************************)
\* the reference profile the core substitutions start from
Reference == reference_jupiter(arg.N).val

Returned(name) == op = name /\ pc = "done" /\ ret.kind = "value"

\* C1: for every profile of equal lengths N >= 1 the first element of
\* mass_variable's result, found by the inside-out running sum, equals the
\* total that mass finds on the same arrays by the density-increment sum.
C1_CumulativeFirstIsTotal ==
  /\ Returned("mass_variable") => feq(ret.val[0], mass(arg.svec, arg.dvec))
  /\ Returned("mass") => feq(ret.val, mass_variable(arg.svec, arg.dvec)[0])

C1_Witness ==
  /\ Returned("mass_variable")
  /\ size(arg.svec) >= 2
  /\ ~feq(arg.dvec[0], arg.dvec[1])
  /\ ~feq(arg.svec[0], arg.svec[1])
  /\ ret.val[0].s # 0

\* C2: distance_of_J returns a distance only when its three arguments have
\* one length; whenever one length differs from the others it raises.
C2_LengthMismatchRaises ==
  op = "distance_of_J" =>
    (ret.kind = "value" <=>
       /\ size(arg.model_1) = size(arg.model_2)
       /\ size(arg.model_1) = size(arg.sigmas))

\* the breakpoints z1 = x[9], z2 = x[10] of a descriptor
Degenerate(x) ==
  feq(x[9], x[10]) \/ feq(x[9], num(1, 1)) \/ feq(x[10], zero)

BuiltFrom11 ==
  /\ op \in {"piecewise_quadratic_planet", "reference_jupiter"}
  /\ arg.N > 0
  /\ size(arg.x) = 11

SelfDistance ==
  /\ op = "distance_of_J"
  /\ arg.model_1 = arg.model_2
  /\ size(arg.sigmas) = size(arg.model_1)
  /\ \A k \in DOMAIN arg.sigmas : arg.sigmas[k].s # 0

\* C4, as claimed: the distance of any model to itself is exactly 0, also
\* when some of its coefficients are 0.
C4_SelfDistanceZero ==
  SelfDistance => ret.kind = "value" /\ ret.val = zero

\* C4, amended: the distance of a model to itself is exactly 0 when none of
\* its coefficients is 0, and nan when one is (the scaled uncertainty is 0
\* and the term 0/0).
C4_SelfDistanceZeroOrNan ==
  SelfDistance =>
    /\ ret.kind = "value"
    /\ IF \A k \in DOMAIN arg.model_1 : arg.model_1[k].s # 0
       THEN ret.val = zero
       ELSE isnan(ret.val)

C4_Witness ==
  /\ SelfDistance
  /\ size(arg.model_1) = 2
  /\ \A k \in DOMAIN arg.model_1 : arg.model_1[k].s # 0
  /\ ~feq(arg.model_1[0], arg.model_1[1])
  /\ ret = value(zero)

\* the tolerance of C5, relative to the reference's total mass: far above
\* any rounding of float64
Tolerance == num(1, 100)

\* C5: for every N and every core mass Mc from 0 to the reference's total
\* mass, the total mass of type_2_jupiter's profile equals the total mass of
\* the reference profile, within tolerance.
C5_LinearCoreKeepsTotalMass ==
  (/\ Returned("type_2_jupiter")
   /\ fle(zero, arg.Mc)
   /\ fle(arg.Mc, mass(Reference.svec, Reference.dvec))) =>
    LET M == mass(Reference.svec, Reference.dvec)
    IN  fle(fabs(fsub(mass(ret.val.svec, ret.val.dvec), M)), fmul(Tolerance, fabs(M)))

\* C6: for every N and Mc the density at the innermost sample of
\* type_2_jupiter's profile equals that of the reference profile.
C6_LinearCoreKeepsCentralDensity ==
  Returned("type_2_jupiter") =>
    feq(ret.val.dvec[arg.N - 1], Reference.dvec[arg.N - 1])

\* the statement of C7 at the located index i: the total mass shifts by Mc
\* minus the reference's enclosed mass at i, the mass within svec[i] is Mc
\* and the mass outside it is the reference's
MassShift(i) ==
  LET M0 == mass(Reference.svec, Reference.dvec)
      m0 == mass_variable(Reference.svec, Reference.dvec)
      M1 == mass(ret.val.svec, ret.val.dvec)
      m1 == mass_variable(ret.val.svec, ret.val.dvec)
  IN  /\ feq(fsub(M1, M0), fsub(arg.Mc, m0[i]))
      /\ feq(m1[i], arg.Mc)
      /\ feq(fsub(M1, m1[i]), fsub(M0, m0[i]))

C8_OutsideCoreUnchanged ==
  (Returned("type_1_jupiter") \/ Returned("type_2_jupiter")) =>
    LET m0 == mass_variable(Reference.svec, Reference.dvec)
        off == [k \in DOMAIN m0 |-> fabs(fsub(arg.Mc, m0[k]))]
        i == ret.indc
    IN  /\ \A k \in DOMAIN off : fle(off[i], off[k]) /\ (k < i => flt(off[i], off[k]))
        /\ ret.val.svec = Reference.svec
        /\ \A k \in 0 .. i - 1 : ret.val.dvec[k] = Reference.dvec[k]
        /\ i = arg.N - 1 => ret.val.dvec = Reference.dvec

C8_Witness ==
  /\ Returned("type_2_jupiter")
  /\ arg.N >= 3
  /\ ret.indc = arg.N - 1
  /\ arg.Mc.s > 0
  /\ ret.val = Reference

\* radii positive and strictly decreasing, densities non-negative
ValidProfile(svec, dvec) ==
  \A k \in DOMAIN svec :
    /\ svec[k].s > 0
    /\ dvec[k].s >= 0
    /\ k > 0 => fgt(svec[k - 1], svec[k])

\* the entries of mvec from index k to the last do not decrease towards
\* the surface, and the innermost is not negative
Monotone(mvec, k) ==
  /\ fle(zero, mvec[size(mvec) - 1])
  /\ \A j \in k + 1 .. size(mvec) - 1 : fle(mvec[j], mvec[j - 1])

\* C9: on a profile with positive, strictly decreasing radii and
\* non-negative densities, mass_variable's result does not decrease from the
\* centre to the surface and is not negative at the centre; the part of mvec
\* already written has the property after every step of the loop.
C9_CumulativeMonotone ==
  (op = "mass_variable" /\ ValidProfile(arg.svec, arg.dvec)) =>
    /\ Monotone(loc.mvec, loc.k)
    /\ pc = "done" => Monotone(ret.val, 0)

C9_Witness ==
  /\ Returned("mass_variable")
  /\ ValidProfile(arg.svec, arg.dvec)
  /\ size(arg.svec) = 3
  /\ flt(ret.val[2], ret.val[1])
  /\ flt(ret.val[1], ret.val[0])

\* 0 < z2 < z1 < 1
NonDegenerate(x) ==
  flt(zero, x[10]) /\ flt(x[10], x[9]) /\ flt(x[9], num(1, 1))

\* C10: with 0 < z2 < z1 < 1 the three quadratics pass through their
\* defining densities (segment 1: d10 at 1, d11 at z1; segment 2: d21 at z1,
\* d22 at z2; segment 3: d32 at z2, d33 at 0, the d's being the running sums
\* of y10, y11, y21, y22, y32, y33), and each sample's density is the value
\* of segment 1 if its radius is > z1, of segment 2 if it is > z2 and <= z1,
\* of segment 3 otherwise; the surface sample z = 1 has density d10.
C10_SegmentsInterpolate ==
  (Returned("piecewise_quadratic_planet") /\ NonDegenerate(arg.x)) =>
    LET x == arg.x
        co == ret.co
        z1 == x[9]
        z2 == x[10]
        d10 == x[1]
        d11 == fadd(d10, x[2])
        d21 == fadd(d11, x[4])
        d22 == fadd(d21, x[5])
        d32 == fadd(d22, x[7])
        d33 == fadd(d32, x[8])
        q1(z) == quadratic(x[0], co.b1, co.c1, z)
        q2(z) == quadratic(x[3], co.b2, co.c2, z)
        q3(z) == quadratic(x[6], co.b3, co.c3, z)
        zvec == ret.val.svec
        dvec == ret.val.dvec
    IN  /\ feq(q1(num(1, 1)), d10) /\ feq(q1(z1), d11)
        /\ feq(q2(z1), d21) /\ feq(q2(z2), d22)
        /\ feq(q3(z2), d32) /\ feq(q3(zero), d33)
        /\ \A k \in DOMAIN zvec :
             /\ fgt(zvec[k], z1) => feq(dvec[k], q1(zvec[k]))
             /\ (fgt(zvec[k], z2) /\ fle(zvec[k], z1)) => feq(dvec[k], q2(zvec[k]))
             /\ fle(zvec[k], z2) => feq(dvec[k], q3(zvec[k]))
        /\ feq(zvec[0], num(1, 1)) /\ feq(dvec[0], d10)

C10_Witness ==
  /\ Returned("piecewise_quadratic_planet")
  /\ NonDegenerate(arg.x)
  /\ \E k \in DOMAIN ret.val.svec : fgt(ret.val.svec[k], arg.x[9])
  /\ \E k \in DOMAIN ret.val.svec :
       fgt(ret.val.svec[k], arg.x[10]) /\ fle(ret.val.svec[k], arg.x[9])
  /\ \E k \in DOMAIN ret.val.svec : fle(ret.val.svec[k], arg.x[10])
  /\ arg.x[0].s # 0 /\ arg.x[5].s # 0 /\ arg.x[8].s # 0

=============================================================================
